---- MODULE Spec2Model ----
(***************************************************************************)
(* kubectl-view-labels: the node label index, its watch handlers and the   *)
(* bubbletea interaction loop of src/main.go (the same code is packaged as *)
(* src/pkg/model/model.go).                                                *)
(*                                                                         *)
(* Two goroutines share the package-level globals Nodes and LabelKeys      *)
(* without any lock: the main goroutine (initialModel, then model.Update   *)
(* once per message) and the informer goroutine started by watchNodes,     *)
(* which runs the Add/Delete/Update handlers one at a time.  Every action  *)
(* below is one maximal piece of a function that touches the shared        *)
(* globals at one point only, so all interleavings of the two goroutines   *)
(* at the granularity of source statements are represented.                *)
(*                                                                         *)
(* Strings that the program inspects character by character (label key     *)
(* names, the search input) are sequences of byte codes; strings that are  *)
(* only compared for equality (node names, label values) are TLA+ strings. *)
(***************************************************************************)
EXTENDS Integers, Sequences, FiniteSets, TLC

(***************************************************************************)
(* Bounds of the model.                                                    *)
(***************************************************************************)
MaxListed == 2     \* nodes returned by the initial listing
MaxEvents == 2     \* watch events delivered in one run
MaxQuery  == 1     \* length of the search input
MaxRecords == 2    \* records in the index before the event of SpecIndex
MaxViewQuery == 2  \* length of the search input in SpecView
MaxKeys == 11      \* label keys of the largest node listed in SpecView
MaxPage == 2       \* page index up to which page changes are followed

(***************************************************************************)
(* Input universe.                                                         *)
(***************************************************************************)
NodeNames == {"A", "B"}

KeyUpperB == <<66>>          \* the label key "B"
KeyAb     == <<97, 98>>      \* the label key "ab"

Alphabet == {66, 98}         \* "B", "b": the runes a key press can carry

NoLabels == [k \in {} |-> ""]

\* the node objects the cluster may list or report in an event: two revisions
\* of node A (the second with an empty label value) and two of node B (the
\* first without labels)
NodeUniverse ==
    { [Name |-> "A", Labels |-> [k \in {KeyUpperB} |-> "x"]],
      [Name |-> "A", Labels |-> [k \in {KeyUpperB, KeyAb} |-> IF k = KeyAb THEN "y" ELSE ""]],
      [Name |-> "B", Labels |-> NoLabels],
      [Name |-> "B", Labels |-> [k \in {KeyAb} |-> "z"]] }

RECURSIVE SeqsUpTo(_, _)
SeqsUpTo(S, n) ==
    IF n = 0 THEN {<<>>}
    ELSE LET shorter == SeqsUpTo(S, n - 1)
         IN  shorter \cup {Append(s, x) : s \in {t \in shorter : Len(t) = n - 1}, x \in S}

\* the cluster guarantees that names in one listing are unique
Listings ==
    {l \in SeqsUpTo(NodeUniverse, MaxListed) :
        \A i, j \in 1..Len(l) : l[i].Name = l[j].Name => i = j}

\* A second universe, for the interaction loop taken alone: label keys whose
\* names tell a subsequence from a substring and an upper-case letter from a
\* lower-case one, and nodes with enough label keys for a second page.
KeyAbc == <<97, 98, 99>>     \* the label key "abc"
KeyAc  == <<97, 99>>         \* the label key "ac"
KeyBa  == <<98, 97>>         \* the label key "ba"

ViewKeys == {KeyAbc, KeyAc, KeyBa, KeyUpperB}

ViewAlphabet == {66, 97, 98, 99}     \* "B", "a", "b", "c"

\* n one-letter label keys "a", "b", "c", ...
PageKeys(n) == {<<96 + i>> : i \in 1..n}

ViewKeySets == (SUBSET ViewKeys) \cup {PageKeys(n) : n \in 1..MaxKeys}

\* the listings of SpecView: no node, or one node A carrying one of the key sets
ViewListings ==
    {<<>>} \cup {<<[Name |-> "A", Labels |-> [k \in K |-> "v"]]>> : K \in ViewKeySets}

(***************************************************************************)
(* hash, hashToColorCode, LabelKey.WithName                                *)
(***************************************************************************)
RECURSIVE XorBits(_, _, _)
XorBits(a, b, n) ==
    IF n = 0 THEN 0
    ELSE (((a % 2) + (b % 2)) % 2) + 2 * XorBits(a \div 2, b \div 2, n - 1)

\* a uint32 is kept as two 16-bit halves
FnvOffsetHi == 33052         \* 0x811c
FnvOffsetLo == 40389         \* 0x9dc5
FnvPrimeLow == 403           \* 16777619 = 2^24 + 0x193

\* one round of FNV-1 instead: the multiplication first, then the xor
FnvStepMultiplyFirst(h, b) ==
    LET pl  == h.lo * FnvPrimeLow
        ph  == (h.hi * FnvPrimeLow) + (pl \div 65536) + ((h.lo % 256) * 256)
        lo  == pl % 65536
    IN  [hi |-> ph % 65536, lo |-> (lo - (lo % 256)) + XorBits(lo % 256, b, 8)]

\* one round of FNV-1a: h ^= b; h *= 16777619 (mod 2^32)
FnvStep(h, b) ==
    LET lo  == (h.lo - (h.lo % 256)) + XorBits(h.lo % 256, b, 8)
        hi  == h.hi
        pl  == lo * FnvPrimeLow
        ph  == (hi * FnvPrimeLow) + (pl \div 65536) + ((lo % 256) * 256)
    IN  [hi |-> ph % 65536, lo |-> pl % 65536]

RECURSIVE FnvFold(_, _)
FnvFold(h, s) == IF s = <<>> THEN h ELSE FnvFold(FnvStep(h, Head(s)), Tail(s))

hash(s) == FnvFold([hi |-> FnvOffsetHi, lo |-> FnvOffsetLo], s)

\* "#%06x" of the low 24 bits: six hexadecimal digits, most significant first
hashToColorCode(h) ==
    LET hi8 == h.hi % 256
    IN  << hi8 \div 16, hi8 % 16,
           (h.lo \div 4096) % 16, (h.lo \div 256) % 16,
           (h.lo \div 16) % 16, h.lo % 16 >>

WithName(name) == [Name |-> name, Style |-> hashToColorCode(hash(name))]

(***************************************************************************)
(* LabelKeyNames, contains, fuzzy.Match, FuzzyFindLabelKeys                *)
(***************************************************************************)
LabelKeyNames(keys) == [i \in 1..Len(keys) |-> keys[i].Name]

contains(input, str) == \E i \in 1..Len(input) : input[i] = str

\* whether rune r occurs in target, and the suffix after its first occurrence
RECURSIVE AfterFirst(_, _)
AfterFirst(r, target) ==
    IF target = <<>> THEN [found |-> FALSE, rest |-> <<>>]
    ELSE IF Head(target) = r THEN [found |-> TRUE, rest |-> Tail(target)]
    ELSE AfterFirst(r, Tail(target))

\* the loop restarted on the whole target for every rune of the source
RECURSIVE MatchLoopAnywhere(_, _)
MatchLoopAnywhere(source, target) ==
    source = <<>> \/ (AfterFirst(Head(source), target).found
                        /\ MatchLoopAnywhere(Tail(source), target))

RECURSIVE MatchLoop(_, _)
MatchLoop(source, target) ==
    IF source = <<>> THEN TRUE
    ELSE LET a == AfterFirst(Head(source), target)
         IN  a.found /\ MatchLoop(Tail(source), a.rest)

\* a match that insists on a non-empty source
FuzzyMatchNonEmpty(source, target) == source # <<>> /\ MatchLoop(source, target)

\* github.com/lithammer/fuzzysearch/fuzzy.Match (no transformer)
FuzzyMatch(source, target) ==
    IF Len(target) - Len(source) < 0 THEN FALSE
    ELSE IF Len(target) = Len(source) /\ source = target THEN TRUE
    ELSE MatchLoop(source, target)

\* the matching keys put in front of the results instead of appended
RECURSIVE FuzzyFindLabelKeysPrepend(_, _)
FuzzyFindLabelKeysPrepend(input, keys) ==
    IF keys = <<>> THEN <<>>
    ELSE IF FuzzyMatch(input, Head(keys).Name)
         THEN FuzzyFindLabelKeysPrepend(input, Tail(keys)) \o <<Head(keys)>>
         ELSE FuzzyFindLabelKeysPrepend(input, Tail(keys))

RECURSIVE FuzzyFindLabelKeys(_, _)
FuzzyFindLabelKeys(input, keys) ==
    IF keys = <<>> THEN <<>>
    ELSE IF FuzzyMatch(input, Head(keys).Name)
         THEN <<Head(keys)>> \o FuzzyFindLabelKeys(input, Tail(keys))
         ELSE FuzzyFindLabelKeys(input, Tail(keys))

(***************************************************************************)
(* uniqueKeys, sort.Slice by Name, updateLabelKeys                         *)
(***************************************************************************)
\* Go's < on strings: bytewise lexicographic
RECURSIVE StrLess(_, _)
StrLess(a, b) ==
    IF b = <<>> THEN FALSE
    ELSE IF a = <<>> THEN TRUE
    ELSE IF Head(a) < Head(b) THEN TRUE
    ELSE IF Head(a) > Head(b) THEN FALSE
    ELSE StrLess(Tail(a), Tail(b))

RECURSIVE UniqueFrom(_, _, _)
UniqueFrom(input, seen, unique) ==
    IF input = <<>> THEN unique
    ELSE IF Head(input).Name \in seen
         THEN UniqueFrom(Tail(input), seen, unique)
         ELSE UniqueFrom(Tail(input), seen \cup {Head(input).Name}, Append(unique, Head(input)))

uniqueKeys(input) == UniqueFrom(input, {}, <<>>)

RECURSIVE InsertByName(_, _)
InsertByName(k, sorted) ==
    IF sorted = <<>> THEN <<k>>
    ELSE IF StrLess(k.Name, Head(sorted).Name) THEN <<k>> \o sorted
    ELSE <<Head(sorted)>> \o InsertByName(k, Tail(sorted))

\* the sort left out: the keys stay in the order uniqueKeys met them
SortByNameNone(keys) == keys

RECURSIVE SortByName(_)
SortByName(keys) ==
    IF keys = <<>> THEN <<>> ELSE InsertByName(Head(keys), SortByName(Tail(keys)))

\* the keys of a label map in the order the range loop happens to visit them;
\* Go leaves the order unspecified and every use below is insensitive to it
RECURSIVE RangeOrder(_)
RangeOrder(S) ==
    IF S = {} THEN <<>>
    ELSE LET k == CHOOSE x \in S : TRUE IN <<k>> \o RangeOrder(S \ {k})

RECURSIVE CollectLabelKeys(_)
CollectLabelKeys(items) ==
    IF items = <<>> THEN <<>>
    ELSE LET ks == RangeOrder(DOMAIN Head(items).Labels)
         IN  [i \in 1..Len(ks) |-> WithName(ks[i])] \o CollectLabelKeys(Tail(items))

\* the value updateLabelKeys computes from Nodes.Items (lines 464-474)
ComputeLabelKeys(items) == SortByName(uniqueKeys(CollectLabelKeys(items)))

(***************************************************************************)
(* LabelValue, FilterNodeInfos                                             *)
(***************************************************************************)
\* node.Labels[name]: the zero value "" for a missing key
LabelOf(node, name) == IF name \in DOMAIN node.Labels THEN node.Labels[name] ELSE ""

\* NewLabelValue().WithName(v).WithKey(key)
NewLabelValue(v, key) == [Name |-> v, Key |-> key, Style |-> key.Style]

\* LabelValue.Render, lines 136-144, without the styling
Render(v) == IF v.Name = "" THEN "<None>" ELSE v.Name

NoNodeInfos == [n \in {} |-> <<>>]

\* append(infos[name], values...) on a map whose missing entries are nil
AppendTo(infos, name, values) ==
    [n \in DOMAIN infos \cup {name} |->
        IF n = name
        THEN (IF name \in DOMAIN infos THEN infos[name] ELSE <<>>) \o values
        ELSE infos[n]]

\* the gate left out: every node passes, whatever its labels
AnyMatchAlways(labeKeyNames, node) == TRUE

\* the gate reduced to "the node has a label", whatever the filtered keys
AnyMatchLabelled(labeKeyNames, node) == DOMAIN node.Labels # {}

\* lines 153-154: some label key of the node is among the filtered key names
AnyMatch(labeKeyNames, node) ==
    \E key \in DOMAIN node.Labels : contains(labeKeyNames, key)

\* lines 155-158: one LabelValue per filtered key, in the order of the keys
Row(fkeys, node) ==
    [i \in 1..Len(fkeys) |-> NewLabelValue(LabelOf(node, fkeys[i].Name), fkeys[i])]

RECURSIVE FilterLoop(_, _, _)
FilterLoop(fkeys, items, infos) ==
    IF items = <<>> THEN infos
    ELSE LET node == Head(items)
         IN  FilterLoop(fkeys, Tail(items),
                        IF AnyMatch(LabelKeyNames(fkeys), node)
                        THEN AppendTo(infos, node.Name, Row(fkeys, node))
                        ELSE infos)

FilterNodeInfos(fkeys, items) == FilterLoop(fkeys, items, NoNodeInfos)

(***************************************************************************)
(* bubbles paginator                                                       *)
(***************************************************************************)
PerPage == 10

\* paginator.New() followed by p.PerPage = 10
NewPaginator == [Page |-> 0, TotalPages |-> 1]

SetTotalPages(p, items) ==
    IF items < 1 THEN p
    ELSE [p EXCEPT !.TotalPages =
             (items \div PerPage) + (IF (items % PerPage) > 0 THEN 1 ELSE 0)]

PrevPage(p) == IF p.Page > 0 THEN [p EXCEPT !.Page = p.Page - 1] ELSE p

NextPage(p) == IF p.Page # p.TotalPages - 1 THEN [p EXCEPT !.Page = p.Page + 1] ELSE p

\* start = Page*PerPage, end = min(Page*PerPage + PerPage, length)
GetSliceBounds(p, length) ==
    LET start == p.Page * PerPage
        end   == IF start + PerPage < length THEN start + PerPage ELSE length
    IN  [start |-> start, end |-> end]

(***************************************************************************)
(* State                                                                   *)
(***************************************************************************)
VARIABLES
    Nodes,              \* global *v1.NodeList: [nil, Items]
    LabelKeys,          \* global catalogue
    nodes,              \* watchNodes: the listing it is about to return (a local)
    uniqLabelKeys,      \* updateLabelKeys called from initialModel: its local result
    keys,               \* the catalogue slice Update handed to FuzzyFindLabelKeys
    FilteredNodeInfos,  \* model.FilteredNodeInfos
    FilteredLabelKeys,  \* model.FilteredLabelKeys
    Paginator,          \* model.Paginator
    TextInput,          \* model.TextInput.Value()
    mainPc,             \* position of the main goroutine
    informer,           \* TRUE once go controller.Run(stop) has been issued and the
                        \* informer holds a watch
    hPc,                \* position of the informer goroutine inside a handler
    hEvent,             \* the event the running handler was called with
    events,             \* number of events delivered so far
    quitMsg             \* TRUE once Update has returned tea.Quit: a QuitMsg is on its way

vars == <<Nodes, LabelKeys, nodes, uniqLabelKeys, keys, FilteredNodeInfos, FilteredLabelKeys,
          Paginator, TextInput, mainPc, informer, hPc, hEvent, events, quitMsg>>

modelVars == <<FilteredNodeInfos, FilteredLabelKeys, Paginator, TextInput>>
mainVars  == <<nodes, uniqLabelKeys, keys, FilteredNodeInfos, FilteredLabelKeys, Paginator,
               TextInput, mainPc, quitMsg>>

NoEvent == [kind |-> "none", Name |-> "", Labels |-> NoLabels]

Init ==
    /\ Nodes = [nil |-> TRUE, Items |-> <<>>]
    /\ LabelKeys = <<>>
    /\ nodes = <<>>
    /\ uniqLabelKeys = <<>>
    /\ keys = <<>>
    /\ FilteredNodeInfos = NoNodeInfos
    /\ FilteredLabelKeys = <<>>
    /\ Paginator = NewPaginator
    /\ TextInput = <<>>
    /\ mainPc = "start"
    /\ informer = FALSE
    /\ hPc = "idle"
    /\ hEvent = NoEvent
    /\ events = 0
    /\ quitMsg = FALSE

(***************************************************************************)
(* Main goroutine: initialModel                                            *)
(***************************************************************************)
\* watchNodes: the listing succeeds, the informer goroutine is started
WatchNodes ==
    /\ mainPc = "start"
    /\ \E l \in Listings : nodes' = l
    /\ informer' = TRUE
    /\ mainPc' = "watching"
    /\ UNCHANGED <<Nodes, LabelKeys, uniqLabelKeys, keys, modelVars, hPc, hEvent, events, quitMsg>>

\* the listing made after go controller.Run(stop): it fails with the watch running
WatchNodesPanicLate ==
    /\ mainPc = "start"
    /\ mainPc' = "panicked"
    /\ informer' = TRUE
    /\ UNCHANGED <<Nodes, LabelKeys, nodes, uniqLabelKeys, keys, modelVars, hPc, hEvent, events, quitMsg>>

\* watchNodes: the listing fails and the function panics
WatchNodesPanic ==
    /\ mainPc = "start"
    /\ mainPc' = "panicked"
    /\ UNCHANGED <<Nodes, LabelKeys, nodes, uniqLabelKeys, keys, modelVars, informer, hPc,
                   hEvent, events, quitMsg>>

\* watchNodes when the informer cannot establish its watch: the listing of
\* line 409 succeeds, controller.Run is issued and watchNodes returns all the
\* same; controller.Run reports nothing to its caller
WatchNodesUnwatched ==
    /\ mainPc = "start"
    /\ \E l \in Listings : nodes' = l
    /\ mainPc' = "watching"
    /\ UNCHANGED <<Nodes, LabelKeys, uniqLabelKeys, keys, modelVars, informer, hPc, hEvent,
                   events, quitMsg>>

\* the informer goroutine tries again on its own and obtains the watch
WatchRetry ==
    /\ ~informer
    /\ mainPc \notin {"start", "panicked", "exited", "viewpanic"}
    /\ informer' = TRUE
    /\ UNCHANGED <<Nodes, LabelKeys, mainVars, hPc, hEvent, events>>

\* Nodes = watchNodes(clientset)
AssignNodes ==
    /\ mainPc = "watching"
    /\ hPc # "panic"
    /\ Nodes' = [nil |-> FALSE, Items |-> nodes]
    /\ nodes' = <<>>
    /\ mainPc' = "assigned"
    /\ UNCHANGED <<LabelKeys, uniqLabelKeys, keys, modelVars, informer, hPc, hEvent, events, quitMsg>>

\* updateLabelKeys, lines 464-474: collect, de-duplicate and sort into a local
InitComputeLabelKeys ==
    /\ mainPc = "assigned"
    /\ hPc # "panic"
    /\ uniqLabelKeys' = ComputeLabelKeys(Nodes.Items)
    /\ mainPc' = "computed"
    /\ UNCHANGED <<Nodes, LabelKeys, nodes, keys, modelVars, informer, hPc, hEvent, events, quitMsg>>

\* updateLabelKeys, line 475: LabelKeys = uniqLabelKeys
InitStoreLabelKeys ==
    /\ mainPc = "computed"
    /\ hPc # "panic"
    /\ LabelKeys' = uniqLabelKeys
    /\ uniqLabelKeys' = <<>>
    /\ mainPc' = "catalogued"
    /\ UNCHANGED <<Nodes, nodes, keys, modelVars, informer, hPc, hEvent, events, quitMsg>>

\* lines 210-222: text input and paginator, p.SetTotalPages(len(LabelKeys))
InitPaginator ==
    /\ mainPc = "catalogued"
    /\ hPc # "panic"
    /\ TextInput' = <<>>
    /\ Paginator' = SetTotalPages(NewPaginator, Len(LabelKeys))
    /\ mainPc' = "paginated"
    /\ UNCHANGED <<Nodes, LabelKeys, nodes, uniqLabelKeys, keys, FilteredNodeInfos,
                   FilteredLabelKeys, informer, hPc, hEvent, events, quitMsg>>

\* lines 224-228: every listed node with an empty row
InitNodeInfos ==
    /\ mainPc = "paginated"
    /\ hPc # "panic"
    /\ FilteredNodeInfos' =
          [n \in {Nodes.Items[i].Name : i \in 1..Len(Nodes.Items)} |-> <<>>]
    /\ mainPc' = "rows"
    /\ UNCHANGED <<Nodes, LabelKeys, nodes, uniqLabelKeys, keys, FilteredLabelKeys, Paginator,
                   TextInput, informer, hPc, hEvent, events, quitMsg>>

\* lines 230-235: the model literal, FilteredLabelKeys: LabelKeys
InitModel ==
    /\ mainPc = "rows"
    /\ hPc # "panic"
    /\ FilteredLabelKeys' = LabelKeys
    /\ mainPc' = "idle"
    /\ UNCHANGED <<Nodes, LabelKeys, nodes, uniqLabelKeys, keys, FilteredNodeInfos, Paginator,
                   TextInput, informer, hPc, hEvent, events, quitMsg>>

(***************************************************************************)
(* Main goroutine: model.Update                                            *)
(***************************************************************************)
\* the messages the program receives besides ctrl+c, left and right: a key press
\* carrying a rune, backspace, and any message the text input ignores
TextMsgsOver(alphabet) ==
    {[kind |-> "rune", rune |-> r] : r \in alphabet}
        \cup {[kind |-> "backspace", rune |-> 0], [kind |-> "other", rune |-> 0]}

TextMsgs == TextMsgsOver(Alphabet)

\* textinput.Model.Update on a focused input whose cursor is at the end
TextInputUpdate(value, msg) ==
    IF msg.kind = "rune" THEN Append(value, msg.rune)
    ELSE IF msg.kind = "backspace" /\ value # <<>> THEN SubSeq(value, 1, Len(value) - 1)
    ELSE value

\* case "ctrl+c": return m, tea.Quit.  tea.Quit is a command: the bubbletea
\* runtime runs it on a goroutine of its own and leaves its loop when the
\* QuitMsg the command yields is received; a message read before that is
\* still handed to Update
\* View, lines 291-301: m.FilteredLabelKeys[start:end] with the bounds of the
\* paginator; the slice expression is defined when start <= end (end never
\* exceeds the length)
ViewOk ==
    LET b == GetSliceBounds(Paginator, Len(FilteredLabelKeys))
    IN  (0 <= b.start) /\ (b.start <= b.end) /\ (b.end <= Len(FilteredLabelKeys))

\* the runtime renders View() after every Update, before it takes the next
\* message: with bounds out of range the slice expression panics and the
\* program is over
ViewPanic ==
    /\ mainPc = "idle"
    /\ hPc # "panic"
    /\ ~ViewOk
    /\ mainPc' = "viewpanic"
    /\ UNCHANGED <<Nodes, LabelKeys, nodes, uniqLabelKeys, keys, modelVars, informer, hPc,
                   hEvent, events, quitMsg>>

UpdateQuit ==
    /\ mainPc = "idle"
    /\ ViewOk
    /\ hPc # "panic"
    /\ quitMsg' = TRUE
    /\ UNCHANGED <<Nodes, LabelKeys, nodes, uniqLabelKeys, keys, modelVars, mainPc, informer,
                   hPc, hEvent, events>>

\* case "left", "right": m.Paginator.Update(msg); return
UpdatePage ==
    /\ mainPc = "idle"
    /\ ViewOk
    /\ hPc # "panic"
    /\ \E dir \in {"left", "right"} :
          Paginator' = IF dir = "left" THEN PrevPage(Paginator) ELSE NextPage(Paginator)
    /\ Paginator'.Page <= MaxPage
    /\ UNCHANGED <<Nodes, LabelKeys, nodes, uniqLabelKeys, keys, FilteredNodeInfos,
                   FilteredLabelKeys, TextInput, mainPc, informer, hPc, hEvent, events, quitMsg>>

\* lines 255-256: the text input takes the message, the catalogue is filtered
UpdateFilterOn(msgs, maxLen) ==
    /\ mainPc = "idle"
    /\ ViewOk
    /\ hPc # "panic"
    /\ \E msg \in msgs :
          /\ Len(TextInputUpdate(TextInput, msg)) <= maxLen
          /\ TextInput' = TextInputUpdate(TextInput, msg)
    /\ keys' = LabelKeys
    /\ FilteredLabelKeys' = FuzzyFindLabelKeys(TextInput', keys')
    /\ mainPc' = "filtered"
    /\ UNCHANGED <<Nodes, LabelKeys, nodes, uniqLabelKeys, FilteredNodeInfos, Paginator,
                   informer, hPc, hEvent, events, quitMsg>>

UpdateFilter == UpdateFilterOn(TextMsgs, MaxQuery)

\* the projection taken for the whole catalogue instead of the filtered keys
UpdateProjectUnfiltered ==
    /\ mainPc = "filtered"
    /\ hPc # "panic"
    /\ FilteredNodeInfos' = FilterNodeInfos(keys, Nodes.Items)
    /\ Paginator' = SetTotalPages(Paginator, Len(FilteredLabelKeys))
    /\ keys' = <<>>
    /\ mainPc' = "idle"
    /\ UNCHANGED <<Nodes, LabelKeys, nodes, uniqLabelKeys, FilteredLabelKeys, TextInput,
                   informer, hPc, hEvent, events, quitMsg>>

\* lines 257-260: the projection and the page count, then return
UpdateProject ==
    /\ mainPc = "filtered"
    /\ hPc # "panic"
    /\ FilteredNodeInfos' = FilterNodeInfos(FilteredLabelKeys, Nodes.Items)
    /\ Paginator' = SetTotalPages(Paginator, Len(FilteredLabelKeys))
    /\ keys' = <<>>
    /\ mainPc' = "idle"
    /\ UNCHANGED <<Nodes, LabelKeys, nodes, uniqLabelKeys, FilteredLabelKeys, TextInput,
                   informer, hPc, hEvent, events, quitMsg>>

\* the runtime receives the QuitMsg between two Update calls: p.Run() returns
\* and main returns, the process is gone
Exit ==
    /\ mainPc = "idle"
    /\ ViewOk
    /\ quitMsg
    /\ hPc # "panic"
    /\ mainPc' = "exited"
    /\ UNCHANGED <<Nodes, LabelKeys, nodes, uniqLabelKeys, keys, modelVars, informer, hPc,
                   hEvent, events, quitMsg>>

(***************************************************************************)
(* Informer goroutine: the three handlers                                  *)
(***************************************************************************)
Delivering ==
    /\ informer
    /\ mainPc \notin {"exited", "panicked", "viewpanic"}
    /\ hPc = "idle"
    /\ events < MaxEvents

\* index of the first item with the given name, 0 if there is none
FirstIndex(items, name) ==
    IF \E i \in 1..Len(items) : items[i].Name = name
    THEN CHOOSE i \in 1..Len(items) :
            /\ items[i].Name = name
            /\ \A j \in 1..(i - 1) : items[j].Name # name
    ELSE 0

\* AddFunc, line 426
AddItems(items, node) == Append(items, node)

\* DeleteFunc, lines 433-438
DeleteItems(items, name) ==
    LET i == FirstIndex(items, name)
    IN  IF i = 0 THEN items ELSE SubSeq(items, 1, i - 1) \o SubSeq(items, i + 1, Len(items))

\* UpdateFunc, lines 445-450
UpdateItems(items, node) ==
    LET i == FirstIndex(items, node.Name)
    IN  IF i = 0 THEN items ELSE [items EXCEPT ![i] = node]

\* the handler dereferences Nodes: a nil pointer panics the process
Mutate(ev, items) ==
    /\ hEvent' = ev
    /\ events' = events + 1
    /\ IF Nodes.nil
       THEN /\ hPc' = "panic"
            /\ Nodes' = Nodes
       ELSE /\ hPc' = "mutated"
            /\ Nodes' = [Nodes EXCEPT !.Items = items]
    /\ UNCHANGED <<LabelKeys, mainVars, informer>>

AddFunc ==
    /\ Delivering
    /\ \E node \in NodeUniverse :
          Mutate([kind |-> "add", Name |-> node.Name, Labels |-> node.Labels],
                 AddItems(Nodes.Items, node))

DeleteFunc ==
    /\ Delivering
    /\ \E name \in NodeNames :
          Mutate([kind |-> "delete", Name |-> name, Labels |-> NoLabels],
                 DeleteItems(Nodes.Items, name))

UpdateFunc ==
    /\ Delivering
    /\ \E node \in NodeUniverse :
          Mutate([kind |-> "update", Name |-> node.Name, Labels |-> node.Labels],
                 UpdateItems(Nodes.Items, node))

\* the handler's closing updateLabelKeys(); no other goroutine writes Nodes.Items
\* once it is assigned, so its read of the items and its store form one step
HandlerUpdateLabelKeys ==
    /\ hPc = "mutated"
    /\ mainPc \notin {"exited", "viewpanic"}
    /\ LabelKeys' = ComputeLabelKeys(Nodes.Items)
    /\ hPc' = "idle"
    /\ hEvent' = NoEvent
    /\ UNCHANGED <<Nodes, mainVars, informer, events>>

Next ==
    \/ WatchNodes
    \/ WatchNodesPanic
    \/ WatchNodesUnwatched
    \/ WatchRetry
    \/ AssignNodes
    \/ InitComputeLabelKeys
    \/ InitStoreLabelKeys
    \/ InitPaginator
    \/ InitNodeInfos
    \/ InitModel
    \/ UpdateQuit
    \/ UpdatePage
    \/ UpdateFilter
    \/ UpdateProject
    \/ Exit
    \/ AddFunc
    \/ DeleteFunc
    \/ UpdateFunc
    \/ HandlerUpdateLabelKeys

Spec == Init /\ [][Next]_vars

(***************************************************************************)
(* The informer goroutine alone: the program sits in p.Run() with the      *)
(* view-model of an empty listing, Added events have filled the index, and *)
(* one more event is delivered and handled.                                *)
(***************************************************************************)
InitIndex ==
    /\ \E items \in SeqsUpTo(NodeUniverse, MaxRecords) :
          /\ Nodes = [nil |-> FALSE, Items |-> items]
          /\ LabelKeys = ComputeLabelKeys(items)
    /\ nodes = <<>>
    /\ uniqLabelKeys = <<>>
    /\ keys = <<>>
    /\ FilteredNodeInfos = NoNodeInfos
    /\ FilteredLabelKeys = <<>>
    /\ Paginator = NewPaginator
    /\ TextInput = <<>>
    /\ mainPc = "idle"
    /\ informer = TRUE
    /\ hPc = "idle"
    /\ hEvent = NoEvent
    /\ events = MaxEvents - 1
    /\ quitMsg = FALSE

NextIndex ==
    \/ AddFunc
    \/ DeleteFunc
    \/ UpdateFunc
    \/ HandlerUpdateLabelKeys

SpecIndex == InitIndex /\ [][NextIndex]_vars

(***************************************************************************)
(* The interaction loop alone: initialModel has run on a listing of the    *)
(* second universe, no watch event arrives, and model.Update handles key   *)
(* presses over ViewAlphabet and page changes.                             *)
(***************************************************************************)
InitView ==
    /\ \E l \in ViewListings :
          /\ Nodes = [nil |-> FALSE, Items |-> l]
          /\ LabelKeys = ComputeLabelKeys(l)
          /\ FilteredNodeInfos = [n \in {l[i].Name : i \in 1..Len(l)} |-> <<>>]
    /\ FilteredLabelKeys = LabelKeys
    /\ Paginator = SetTotalPages(NewPaginator, Len(LabelKeys))
    /\ TextInput = <<>>
    /\ nodes = <<>>
    /\ uniqLabelKeys = <<>>
    /\ keys = <<>>
    /\ mainPc = "idle"
    /\ informer = TRUE
    /\ hPc = "idle"
    /\ hEvent = NoEvent
    /\ events = 0
    /\ quitMsg = FALSE

ViewUpdateFilter == UpdateFilterOn(TextMsgsOver(ViewAlphabet), MaxViewQuery)

NextView ==
    \/ ViewUpdateFilter
    \/ UpdateProject
    \/ UpdatePage
    \/ ViewPanic

SpecView == InitView /\ [][NextView]_vars

(***************************************************************************)
(* Vocabulary of the properties                                            *)
(***************************************************************************)
\* initialModel has completed its updateLabelKeys() call
Seeded == mainPc \in {"catalogued", "paginated", "rows", "idle", "filtered", "exited"}

\* the label key names carried by the records of items
NamesIn(items) == UNION {DOMAIN items[i].Labels : i \in 1..Len(items)}

\* cat is sort(unique(label keys of items)): exactly those names, each once,
\* strictly ascending in bytewise order
IsCatalogueOf(cat, items) ==
    /\ {cat[i].Name : i \in 1..Len(cat)} = NamesIn(items)
    /\ \A i \in 1..(Len(cat) - 1) : StrLess(cat[i].Name, cat[i + 1].Name)

\* the records of items stored under a node name
RecordsOf(items, name) == {items[i] : i \in {j \in 1..Len(items) : items[j].Name = name}}

\* model.Update completes a recomputation in this step
Recomputes == mainPc = "filtered" /\ mainPc' = "idle"

\* a watch handler completes in this step
HandlerCompletes == hPc = "mutated" /\ hPc' = "idle"

(***************************************************************************)
(* Catalogue and index                                                     *)
(***************************************************************************)
\* C1: once initialModel has seeded the catalogue, whenever no watch handler
\* is running the catalogue is the name-sorted, duplicate-free list of the
\* label keys of the records in the index.
C1_CatalogueMatchesIndex ==
    (Seeded /\ hPc = "idle") => IsCatalogueOf(LabelKeys, Nodes.Items)

\* C2: whenever no watch handler is running, the index holds at most one
\* record per node name.
C2_NamesArePrimaryKey ==
    hPc = "idle" =>
        \A i, j \in 1..Len(Nodes.Items) :
            Nodes.Items[i].Name = Nodes.Items[j].Name => i = j

(***************************************************************************)
(* Concurrency                                                             *)
(***************************************************************************)
\* C3: a watch handler never executes while the global node list is still
\* unassigned, that is before initialModel has stored the listing that
\* watchNodes returns.
C3_SeededBeforeHandlers ==
    hPc # "idle" => ~Nodes.nil

\* C4: a watch handler (between its mutation of the node set and its
\* recomputation of the catalogue) and a recomputation of model.Update
\* (between its filter and its projection) are never in progress together.
C4_MutualExclusion ==
    ~(hPc = "mutated" /\ mainPc = "filtered")

\* C5: no torn read: when a recomputation projects against the node set, the
\* catalogue it read for the filter is sort(unique(label keys)) of that very
\* node set.
C5_NoTornRead ==
    [][Recomputes => IsCatalogueOf(keys, Nodes.Items)]_vars

(***************************************************************************)
(* Projection                                                              *)
(***************************************************************************)
\* C6: in the view-model a recomputation produces, every node present in the
\* projection has exactly len(filteredKeys) entries.
C6_RowLength ==
    [][Recomputes =>
          \A n \in DOMAIN FilteredNodeInfos' :
              Len(FilteredNodeInfos'[n]) = Len(FilteredLabelKeys')]_vars

C8_RowFollowsKeys ==
    [][Recomputes =>
          \A n \in DOMAIN FilteredNodeInfos' :
              LET row == FilteredNodeInfos'[n]
              IN  /\ [i \in 1..Len(row) |-> row[i].Key] = FilteredLabelKeys'
                  /\ \A i \in 1..Len(row) :
                        \A r \in RecordsOf(Nodes.Items, n) :
                            row[i].Name = LabelOf(r, row[i].Key.Name)]_vars

(***************************************************************************)
(* Watch handlers                                                          *)
(***************************************************************************)
\* C9: when the delete handler for Deleted(name) completes, the index holds
\* no record with that name.
C9_DeleteRemoves ==
    [][(HandlerCompletes /\ hEvent.kind = "delete") =>
          RecordsOf(Nodes'.Items, hEvent.Name) = {}]_vars

\* C10: the update handler for Updated(node), for a name present in the
\* index, leaves under that name only records with the new labels and leaves
\* the records of the other nodes as they were.
C10_UpdateReplaces ==
    [][(hPc = "idle" /\ hPc' = "mutated" /\ hEvent'.kind = "update"
          /\ RecordsOf(Nodes.Items, hEvent'.Name) # {}) =>
          /\ \A r \in RecordsOf(Nodes'.Items, hEvent'.Name) : r.Labels = hEvent'.Labels
          /\ Len(Nodes'.Items) = Len(Nodes.Items)
          /\ \A i \in 1..Len(Nodes.Items) :
                Nodes.Items[i].Name # hEvent'.Name => Nodes'.Items[i] = Nodes.Items[i]]_vars

\* the mutate step of a handler whose event names a node absent from the index
UnknownName(kind) ==
    /\ hPc = "idle" /\ hPc' = "mutated"
    /\ hEvent'.kind = kind
    /\ RecordsOf(Nodes.Items, hEvent'.Name) = {}

\* the completing step of a handler whose event names a node absent from the index
UnknownNameCompletes(kind) ==
    /\ HandlerCompletes
    /\ hEvent.kind = kind
    /\ RecordsOf(Nodes.Items, hEvent.Name) = {}

\* C11: the update handler for Updated(node), for a name absent from the
\* index, leaves the node set as it was (the node is not inserted) and its
\* closing updateLabelKeys leaves the catalogue as it was.
C11_UpdateUnknownNoOp ==
    [][/\ UnknownName("update") => Nodes' = Nodes
       /\ UnknownNameCompletes("update") => (Nodes' = Nodes /\ LabelKeys' = LabelKeys)]_vars

\* C12: the delete handler for Deleted(name), for a name absent from the
\* index, leaves the node set as it was and its closing updateLabelKeys
\* leaves the catalogue as it was.
C12_DeleteUnknownNoOp ==
    [][/\ UnknownName("delete") => Nodes' = Nodes
       /\ UnknownNameCompletes("delete") => (Nodes' = Nodes /\ LabelKeys' = LabelKeys)]_vars

(***************************************************************************)
(* Catalogue determinism                                                   *)
(***************************************************************************)
\* every order in which the records of items can have been appended
RECURSIVE Orders(_)
Orders(items) ==
    IF items = <<>> THEN {<<>>}
    ELSE UNION {{<<items[i]>> \o rest :
                    rest \in Orders(SubSeq(items, 1, i - 1) \o SubSeq(items, i + 1, Len(items)))} :
                i \in 1..Len(items)}

\* C13: the catalogue a handler's updateLabelKeys stores is the one
\* updateLabelKeys computes for every order of the same records, holds no key
\* name twice, and is strictly ascending in bytewise (case-sensitive) order
\* of the key names.
C13_CatalogueDeterminism ==
    [][HandlerCompletes =>
          /\ \A o \in Orders(Nodes'.Items) : ComputeLabelKeys(o) = LabelKeys'
          /\ \A i, j \in 1..Len(LabelKeys') :
                LabelKeys'[i].Name = LabelKeys'[j].Name => i = j
          /\ \A i \in 1..(Len(LabelKeys') - 1) :
                StrLess(LabelKeys'[i].Name, LabelKeys'[i + 1].Name)]_vars

\* C13 witness: a handler has stored a catalogue of two keys for records
\* that another order would present to uniqueKeys in a different key order.
C13_Witness ==
    /\ hPc = "idle"
    /\ events = MaxEvents
    /\ Len(LabelKeys) = 2
    /\ LabelKeys = ComputeLabelKeys(Nodes.Items)
    /\ \E o \in Orders(Nodes.Items) :
          uniqueKeys(CollectLabelKeys(o)) # uniqueKeys(CollectLabelKeys(Nodes.Items))

(***************************************************************************)
(* Fuzzy filter                                                            *)
(***************************************************************************)
\* model.Update hands the text input and the catalogue to FuzzyFindLabelKeys
Filters == mainPc = "idle" /\ mainPc' = "filtered"

\* q is a subsequence of name: its runes occur in name, in order
IsSubsequence(q, name) ==
    \E f \in [1..Len(q) -> 1..Len(name)] :
        /\ \A i, j \in 1..Len(q) : i < j => f[i] < f[j]
        /\ \A i \in 1..Len(q) : name[f[i]] = q[i]

\* C14: filter pass-through: with the empty text input FuzzyFindLabelKeys
\* returns the catalogue it was handed, the same keys in the same order.
C14_FilterPassThrough ==
    [][(Filters /\ TextInput' = <<>>) => FilteredLabelKeys' = keys']_vars

\* C14 witness: the empty input has been filtered against a catalogue of
\* at least two keys.
C14_Witness ==
    /\ mainPc = "filtered"
    /\ TextInput = <<>>
    /\ Len(keys) >= 2

\* C15: filter subsequence law: the text input is a subsequence, rune for
\* rune (so case-sensitively), of the name of every key FuzzyFindLabelKeys
\* returns; every returned key is a key of the catalogue it was handed; no
\* key is returned twice.
C15_FilterSubsequence ==
    [][Filters =>
          /\ \A i \in 1..Len(FilteredLabelKeys') :
                /\ IsSubsequence(TextInput', FilteredLabelKeys'[i].Name)
                /\ \E j \in 1..Len(keys') : keys'[j] = FilteredLabelKeys'[i]
          /\ \A i, j \in 1..Len(FilteredLabelKeys') :
                FilteredLabelKeys'[i] = FilteredLabelKeys'[j] => i = j]_vars

\* C15 witness: the input "ac" has been filtered: the key "abc", of which it
\* is a subsequence but not a substring, is returned and another key of the
\* catalogue is not.
C15_Witness ==
    /\ mainPc = "filtered"
    /\ TextInput = <<97, 99>>
    /\ \E i \in 1..Len(FilteredLabelKeys) : FilteredLabelKeys[i].Name = KeyAbc
    /\ Len(FilteredLabelKeys) < Len(keys)

(***************************************************************************)
(* Pagination                                                              *)
(***************************************************************************)
\* the number of pages n keys fill, PerPage keys to a page
TotalPagesFor(n) == (n + PerPage - 1) \div PerPage

\* C16: pagination consistency: in the view-model a recomputation produces
\* (in particular one that changes the filtered keys, such as a narrowing
\* input typed on a later page) there are no filtered keys, or the current
\* page is below the number of pages the filtered keys fill.
C16_PaginationConsistent ==
    [][Recomputes =>
          \/ Len(FilteredLabelKeys') = 0
          \/ Paginator'.Page < TotalPagesFor(Len(FilteredLabelKeys'))]_vars

(***************************************************************************)
(* Interaction loop                                                        *)
(***************************************************************************)
\* C17: when model.Update completes the handling of a text-input message
\* and no watch handler has interfered (none is running, and the catalogue
\* is still the one the filter read), the view-model holds the filter of the
\* text input over the current catalogue and the projection of those
\* filtered keys over the current node set.
C17_TextInputRecomputes ==
    [][(Recomputes /\ hPc = "idle" /\ keys = LabelKeys) =>
          /\ FilteredLabelKeys' = FuzzyFindLabelKeys(TextInput', LabelKeys')
          /\ FilteredNodeInfos' = FilterNodeInfos(FilteredLabelKeys', Nodes'.Items)]_vars

\* C17 witness: after an Added event appended a record behind the listed
\* ones, a text-input message has been handled and the projection reflects
\* that record.
C17_Witness ==
    /\ mainPc = "idle"
    /\ hPc = "idle"
    /\ Len(Nodes.Items) > MaxListed
    /\ FilteredLabelKeys = FuzzyFindLabelKeys(TextInput, LabelKeys)
    /\ FilteredNodeInfos = FilterNodeInfos(FilteredLabelKeys, Nodes.Items)
    /\ FilteredNodeInfos #
          FilterNodeInfos(FilteredLabelKeys, SubSeq(Nodes.Items, 1, MaxListed))

\* C18: when model.Update has handled a left or right key press, the
\* view-model holds the filter of the text input over the current catalogue
\* and the projection of those filtered keys over the current node set, as
\* it does after a text-input message.
C18_PageInputRecomputes ==
    [][UpdatePage =>
          /\ FilteredLabelKeys' = FuzzyFindLabelKeys(TextInput', LabelKeys')
          /\ FilteredNodeInfos' = FilterNodeInfos(FilteredLabelKeys', Nodes'.Items)]_vars

\* model.Update has handled ctrl+c
Terminated == quitMsg

\* C19: handling ctrl+c takes the interaction loop to Terminated and leaves
\* text input, filtered keys, projection and paginator as they were; once
\* Terminated the loop stays Terminated and no step changes the view-model.
C19_QuitAbsorbing ==
    [][/\ (~Terminated /\ Terminated') => modelVars' = modelVars
       /\ Terminated => (Terminated' /\ modelVars' = modelVars)]_vars

(***************************************************************************)
(* Failure of the initial listing                                          *)
(***************************************************************************)
\* C20: when the initial listing has failed, the process has stopped inside
\* watchNodes: the informer was never started, no event was delivered, the
\* globals and the view-model were never assigned, and no step of the
\* program (no model.Update in particular) can follow.
C20_ListingFailureAborts ==
    mainPc = "panicked" =>
        /\ ~informer
        /\ events = 0
        /\ hPc = "idle"
        /\ Nodes.nil
        /\ LabelKeys = <<>>
        /\ FilteredLabelKeys = <<>>
        /\ FilteredNodeInfos = NoNodeInfos
        /\ TextInput = <<>>
        /\ Paginator = NewPaginator
        /\ ~ENABLED Next

\* C20 witness: the initial listing has failed.
C20_Witness == mainPc = "panicked"

(***************************************************************************)
(* Failure of the watch                                                    *)
(***************************************************************************)
\* C21: the interaction loop never runs while the informer has failed to
\* establish its watch: a watch failure ends the process instead of leaving
\* model.Update running on the listing alone.
C21_WatchFailureFatal ==
    mainPc \in {"idle", "filtered"} => informer

(***************************************************************************)
(* Totality of the filter and of the projection                            *)
(***************************************************************************)
\* C22: FuzzyFindLabelKeys and FilterNodeInfos return a result for every
\* query, catalogue, filtered keys and node list: the filter yields keys of
\* the catalogue it read and nothing for an empty catalogue; the projection
\* yields rows of listed nodes made of filtered keys only, and no row at all
\* when the filtered keys are empty.
C22_FilterAndProjectionTotal ==
    [][/\ Filters =>
            /\ \A i \in 1..Len(FilteredLabelKeys') :
                  \E j \in 1..Len(keys') : FilteredLabelKeys'[i] = keys'[j]
            /\ (keys' = <<>> => FilteredLabelKeys' = <<>>)
       /\ Recomputes =>
            /\ DOMAIN FilteredNodeInfos' \subseteq
                  {Nodes.Items[i].Name : i \in 1..Len(Nodes.Items)}
            /\ \A n \in DOMAIN FilteredNodeInfos' :
                  \A i \in 1..Len(FilteredNodeInfos'[n]) :
                     \E j \in 1..Len(FilteredLabelKeys) :
                        FilteredNodeInfos'[n][i].Key = FilteredLabelKeys[j]
            /\ (FilteredLabelKeys = <<>> => FilteredNodeInfos' = NoNodeInfos)]_vars

\* a query that matches no key of a labelled node has been projected
C22_Witness ==
    /\ mainPc = "idle"
    /\ TextInput # <<>>
    /\ LabelKeys # <<>>
    /\ FilteredLabelKeys = <<>>
    /\ FilteredNodeInfos = NoNodeInfos

(***************************************************************************)
(* Colours                                                                 *)
(***************************************************************************)
SeqRange(s) == {s[i] : i \in 1..Len(s)}

\* every LabelValue the view-model holds
AllLabelValues == UNION {SeqRange(FilteredNodeInfos[n]) : n \in DOMAIN FilteredNodeInfos}

\* every LabelKey the program holds: catalogue, catalogue under construction,
\* the catalogue as read by Update, the filtered keys, the keys of the values
AllLabelKeys ==
    SeqRange(LabelKeys) \cup SeqRange(uniqLabelKeys) \cup SeqRange(keys)
        \cup SeqRange(FilteredLabelKeys) \cup {v.Key : v \in AllLabelValues}

\* "#0bfb85" and "#2505ca": the low 24 bits of FNV-1a 32 of "B" and of "ab"
ColorOfUpperB == <<0, 11, 15, 11, 8, 5>>
ColorOfAb == <<2, 5, 0, 5, 12, 10>>

\* C23: the colour of a LabelKey depends on its name alone, the low 24 bits of
\* the FNV-1a hash of the name: in every state, whichever recomputation built
\* it, a key named "B" has the colour of "B" and a key named "ab" that of
\* "ab", so keys of one name have one colour; and a LabelValue has the colour
\* of its key.
C23_ColorStability ==
    /\ \A k \in AllLabelKeys :
          \/ (k.Name = KeyUpperB /\ k.Style = ColorOfUpperB)
          \/ (k.Name = KeyAb /\ k.Style = ColorOfAb)
    /\ \A v \in AllLabelValues : v.Style = v.Key.Style

\* after a watch event rebuilt the catalogue, values of both keys are shown
C23_Witness ==
    /\ events > 0
    /\ mainPc = "idle"
    /\ {v.Key.Name : v \in AllLabelValues} = {KeyUpperB, KeyAb}

(***************************************************************************)
(* The informer after the quit signal                                      *)
(***************************************************************************)
\* C24: once the interaction loop has received the quit signal the informer's
\* delivery is torn down: from then on no watch handler changes the node list
\* or the catalogue.
C24_QuitStopsDelivery ==
    [][Terminated => (Nodes' = Nodes /\ LabelKeys' = LabelKeys)]_vars

(***************************************************************************)
(* Rendering                                                               *)
(***************************************************************************)
\* C25: whenever View renders the view-model, the bounds it takes from the
\* paginator satisfy 0 <= start <= end <= len(FilteredLabelKeys).
C25_ViewBoundsInRange ==
    mainPc = "idle" =>
        LET b == GetSliceBounds(Paginator, Len(FilteredLabelKeys))
        IN  (0 <= b.start) /\ (b.start <= b.end) /\ (b.end <= Len(FilteredLabelKeys))

(***************************************************************************)
(* The view-model after a watch event                                      *)
(***************************************************************************)
\* the view-model is derived from the text input, the catalogue and the nodes
ViewDerived ==
    /\ FilteredLabelKeys = FuzzyFindLabelKeys(TextInput, LabelKeys)
    /\ FilteredNodeInfos = FilterNodeInfos(FilteredLabelKeys, Nodes.Items)

\* C26: the derived data follow their inputs: when a watch handler has
\* applied its event while model.Update is idle, before any further key
\* press, the filtered keys are the filter of the text input over the
\* catalogue and the projection is that of the filtered keys over the nodes.
C26_DerivedDataFollowsInputs ==
    [][(HandlerCompletes /\ mainPc = "idle") => ViewDerived']_vars

(***************************************************************************)
(* The view-model for the empty query                                      *)
(***************************************************************************)
\* C27: with an empty text input the filtered keys are the whole catalogue
\* and the projection is that of the catalogue over the nodes, one value per
\* catalogue key for every labelled node; stated for the states no watch
\* event has touched, the initial view-model among them.
C27_EmptyQueryShowsAll ==
    (mainPc = "idle" /\ TextInput = <<>> /\ events = 0 /\ hPc = "idle") =>
        /\ FilteredLabelKeys = LabelKeys
        /\ FilteredNodeInfos = FilterNodeInfos(LabelKeys, Nodes.Items)

(***************************************************************************)
(* The page count                                                          *)
(***************************************************************************)
\* C28: a recomputation leaves the paginator with the number of pages the
\* new filtered keys fill at PerPage keys a page, zero filtered keys
\* included; the page count of the previous filter result is not kept.
C28_TotalPagesFollowFilter ==
    [][Recomputes => Paginator'.TotalPages = TotalPagesFor(Len(FilteredLabelKeys'))]_vars

(***************************************************************************)
(* The no-value marker                                                     *)
(***************************************************************************)
\* C29: in the projection a recomputation produces, for a node listed once,
\* the value under a filtered key is rendered as the marker "<None>" exactly
\* when the node has no label of that key; a label with the empty value is
\* not rendered as the marker.
C29_NoValueMarker ==
    [][Recomputes =>
          \A n \in DOMAIN FilteredNodeInfos' :
             \A j \in 1..Len(Nodes.Items) :
                (/\ Nodes.Items[j].Name = n
                 /\ \A k \in 1..Len(Nodes.Items) : Nodes.Items[k].Name = n => k = j)
                => \A i \in 1..Len(FilteredLabelKeys) :
                      (Render(FilteredNodeInfos'[n][i]) = "<None>")
                         <=> (FilteredLabelKeys[i].Name \notin DOMAIN Nodes.Items[j].Labels)]_vars

(***************************************************************************)
(* The catalogue after a deletion                                          *)
(***************************************************************************)
\* C30: when the DeleteFunc handler has applied Deleted(name), every key of
\* the catalogue is carried by a node other than the deleted one.
C30_DeletePrunesCatalogue ==
    [][(HandlerCompletes /\ hEvent.kind = "delete") =>
          \A i \in 1..Len(LabelKeys') :
             \E j \in 1..Len(Nodes'.Items) :
                /\ Nodes'.Items[j].Name # hEvent.Name
                /\ LabelKeys'[i].Name \in DOMAIN Nodes'.Items[j].Labels]_vars

(***************************************************************************)
(* Added events that bring no new key                                      *)
(***************************************************************************)
\* the completing step of the AddFunc handler for a node whose label keys
\* (none, possibly) are all in the catalogue
AddsNoNewKey ==
    /\ HandlerCompletes
    /\ hEvent.kind = "add"
    /\ DOMAIN hEvent.Labels \subseteq SeqRange(LabelKeyNames(LabelKeys))

\* C31: applying Added(node) for a node without labels, or whose label keys
\* are all in the catalogue, leaves the catalogue as it was; and in the
\* projection a recomputation produces there is no row for a node name all
\* of whose records are without labels.
C31_AddWithoutNewKeys ==
    [][/\ AddsNoNewKey => LabelKeys' = LabelKeys
       /\ Recomputes =>
             \A n \in DOMAIN FilteredNodeInfos' :
                \E r \in RecordsOf(Nodes.Items, n) : DOMAIN r.Labels # {}]_vars

(***************************************************************************)
(* The filter result as a restriction of the catalogue                     *)
(***************************************************************************)
\* the keys of cat whose name has q as a subsequence, in the order of cat
Restricted(q, cat) ==
    LET Matches(k) == IsSubsequence(q, k.Name)
    IN  SelectSeq(cat, Matches)

\* C32: the filter result is the catalogue restricted to the keys whose name
\* has the text input as a subsequence: every such key is returned, the
\* returned keys keep the order they have in the catalogue, and the result is
\* strictly ascending by name.
C32_FilterIsRestriction ==
    [][Filters =>
          /\ FilteredLabelKeys' = Restricted(TextInput', keys')
          /\ \A j \in 1..Len(keys') :
                IsSubsequence(TextInput', keys'[j].Name)
                   => \E i \in 1..Len(FilteredLabelKeys') : FilteredLabelKeys'[i] = keys'[j]
          /\ \A i \in 1..(Len(FilteredLabelKeys') - 1) :
                StrLess(FilteredLabelKeys'[i].Name, FilteredLabelKeys'[i + 1].Name)]_vars

\* C32 witness: the input "b" has been filtered against the catalogue
\* B, abc, ac, ba: abc and ba are returned in that order, ac between them
\* and B are not.
C32_Witness ==
    /\ mainPc = "filtered"
    /\ TextInput = <<98>>
    /\ LabelKeyNames(keys) = <<KeyUpperB, KeyAbc, KeyAc, KeyBa>>
    /\ LabelKeyNames(FilteredLabelKeys) = <<KeyAbc, KeyBa>>

====
